---- MODULE Spec2Model ----
(***************************************************************************)
(* Model of the AI Hub backend (server.py): a FastAPI application with     *)
(* three routes, GET /api/health, GET / and POST /api/chat, served by one   *)
(* uvicorn process.  The chat route is a coroutine (async def) that runs    *)
(* on the event loop and calls the synchronous OpenAI client; the other     *)
(* two routes are plain functions that the framework runs in its thread     *)
(* pool and answers from the event loop.                                    *)
(*                                                                         *)
(* Python values are records [kind, text, num, items]: text is a sequence   *)
(* of one-character strings, num an integer (numbers are carried in         *)
(* tenths, so that 0.7 is 7), items a sequence of chat messages.            *)
(***************************************************************************)
EXTENDS Integers, Sequences, FiniteSets, TLC

\* Number of client connections the server handles concurrently.
NumClients == 2
\* Most whitespace characters on either side of an 'input' text.
MaxPad == 1

Clients == 1..NumClients

-----------------------------------------------------------------------------
(* Python / JSON values *)

JVal(k, t, n, i) == [kind |-> k, text |-> t, num |-> n, items |-> i]
\* The key is not in the dict.
Absent == JVal("absent", <<>>, 0, <<>>)
\* None / JSON null.
JNull == JVal("null", <<>>, 0, <<>>)
JStr(t) == JVal("str", t, 0, <<>>)
JNum(n) == JVal("num", <<>>, n, <<>>)
JBool(b) == JVal("bool", <<>>, IF b THEN 1 ELSE 0, <<>>)
JList(i) == JVal("list", <<>>, 0, i)

\* Python truthiness (the operand of `not` and of `or`).
Truthy(v) ==
  CASE v.kind = "str"  -> v.text # <<>>
    [] v.kind = "num"  -> v.num # 0
    [] v.kind = "bool" -> v.num # 0
    [] v.kind = "list" -> v.items # <<>>
    [] OTHER           -> FALSE

\* dict.get(key): None when the key is missing.
Get(b, key) == IF b[key] = Absent THEN JNull ELSE b[key]
\* dict.get(key, default).
GetDefault(b, key, d) == IF b[key] = Absent THEN d ELSE b[key]

-----------------------------------------------------------------------------
(* Text *)

\* Characters str.strip() removes.
IsSpace(c) == c \in {" ", "\t", "\n"}

RECURSIVE LStrip(_)
LStrip(s) == IF s # <<>> /\ IsSpace(Head(s)) THEN LStrip(Tail(s)) ELSE s

RECURSIVE RStrip(_)
RStrip(s) ==
  IF s # <<>> /\ IsSpace(s[Len(s)]) THEN RStrip(SubSeq(s, 1, Len(s) - 1)) ELSE s

\* A plausible slip: only the leading whitespace is removed.
Strip_LeadingOnly(s) == LStrip(s)

\* str.strip(): leading and trailing whitespace removed.
Strip(s) == RStrip(LStrip(s))

Digits == {"0", "1", "2"}
DigitVal(c) == CASE c = "0" -> 0 [] c = "1" -> 1 [] OTHER -> 2

RECURSIVE DecVal(_)
DecVal(s) == IF s = <<>> THEN 0 ELSE 10 * DecVal(SubSeq(s, 1, Len(s) - 1)) + DigitVal(s[Len(s)])

\* float(x): [ok, value (in tenths), err (the text of the exception)].
\* A number converts to itself, a bool to 0.0 or 1.0, a string is stripped and
\* parsed (ValueError when it is no number), anything else is a TypeError.
FloatOf(v) ==
  CASE v.kind = "num"  -> [ok |-> TRUE, value |-> v.num, err |-> ""]
    [] v.kind = "bool" -> [ok |-> TRUE, value |-> 10 * v.num, err |-> ""]
    [] v.kind = "str"  ->
         LET s == Strip(v.text) IN
         IF s # <<>> /\ \A i \in 1..Len(s) : s[i] \in Digits
         THEN [ok |-> TRUE, value |-> 10 * DecVal(s), err |-> ""]
         ELSE [ok |-> FALSE, value |-> 0, err |-> "could not convert string to float"]
    [] OTHER           ->
         [ok |-> FALSE, value |-> 0, err |-> "float() argument must be a string or a real number"]

-----------------------------------------------------------------------------
(* Responses *)

\* Default sampling temperature, 0.7, in tenths.
DEFAULT_TEMPERATURE == 7
\* "gpt-4o-mini"
DEFAULT_MODEL == <<"g", "p", "t", "-", "4", "o", "-", "m", "i", "n", "i">>

NoResp ==
  [status |-> 0, detail |-> "", model |-> JNull, output |-> JNull,
   ok |-> FALSE, provider |-> "", html |-> ""]

\* raise HTTPException(status_code, detail)
HTTPError(status, detail) == [NoResp EXCEPT !.status = status, !.detail = detail]

\* return {"model": model, "output": text}
ChatOK(model, text) == [NoResp EXCEPT !.status = 200, !.model = model, !.output = text]

NoCall == [model |-> JNull, messages |-> <<>>, temperature |-> 0]

-----------------------------------------------------------------------------
(* POST /api/chat: the steps of the handler *)

\* A plausible slip: `OPENAI_API_KEY is None`, which lets an empty key through.
CredentialMissing_NoneOnly(key) == key.kind = "null"

\* not OPENAI_API_KEY
CredentialMissing(key) == ~Truthy(key)

\* A plausible slip: body.get("model", "gpt-4o-mini"), which keeps a null or
\* empty model.
ResolveModel_GetDefault(b) == GetDefault(b, "model", JStr(DEFAULT_MODEL))

\* body.get("model") or "gpt-4o-mini"
ResolveModel(b) ==
  IF Truthy(Get(b, "model")) THEN Get(b, "model") ELSE JStr(DEFAULT_MODEL)

\* "messages" in body and isinstance(body["messages"], list)
HasMessageList(b) == b["messages"] # Absent /\ b["messages"].kind = "list"

\* A plausible slip: `not isinstance(user_text, str)` alone, blank text accepted.
InputInvalid_NoBlankCheck(user_text) == user_text.kind # "str"

\* not isinstance(user_text, str) or not user_text.strip()
InputInvalid(user_text) == user_text.kind # "str" \/ Strip(user_text.text) = <<>>

\* [{"role": "user", "content": user_text.strip()}]
InputMessages(user_text) == << [role |-> "user", content |-> Strip(user_text.text)] >>

\* A plausible slip: 'input' is preferred whenever it is usable.
ResolveMessages_InputFirst(b) ==
  IF ~InputInvalid(Get(b, "input"))
  THEN [ok |-> TRUE, messages |-> InputMessages(Get(b, "input"))]
  ELSE [ok |-> HasMessageList(b),
        messages |-> IF HasMessageList(b) THEN b["messages"].items ELSE <<>>]

\* The messages of the request: [ok, messages]; ok is FALSE where the handler
\* raises the 400.
ResolveMessages(b) ==
  IF HasMessageList(b)
  THEN [ok |-> TRUE, messages |-> b["messages"].items]
  ELSE IF InputInvalid(Get(b, "input"))
       THEN [ok |-> FALSE, messages |-> <<>>]
       ELSE [ok |-> TRUE, messages |-> InputMessages(Get(b, "input"))]

\* float(body.get("temperature", 0.7))
ResolveTemperature(b) == FloatOf(GetDefault(b, "temperature", JNum(DEFAULT_TEMPERATURE)))

\* A plausible slip: the handler lets the exception through and the framework
\* answers its bare 500.
ProviderError_Unformatted(text) == HTTPError(500, "Internal Server Error")

\* except Exception as e: raise HTTPException(500, f"OpenAI error: {str(e)}")
ProviderError(text) == HTTPError(500, "OpenAI error: " \o text)

\* The handler up to the provider call: [raised, resp, call].  The arguments of
\* client.chat.completions.create are evaluated before the call is made, so a
\* temperature that float() rejects raises inside the try with no call made.
Prepare(key, b) ==
  IF CredentialMissing(key)
  THEN [raised |-> TRUE, resp |-> HTTPError(500, "OPENAI_API_KEY missing"), call |-> NoCall]
  ELSE IF ~ResolveMessages(b).ok
  THEN [raised |-> TRUE,
        resp |-> HTTPError(400, "Provide 'input' (string) or 'messages' (list)."),
        call |-> NoCall]
  ELSE IF ~ResolveTemperature(b).ok
  THEN [raised |-> TRUE, resp |-> ProviderError(ResolveTemperature(b).err), call |-> NoCall]
  ELSE [raised |-> FALSE, resp |-> NoResp,
        call |-> [model |-> ResolveModel(b),
                  messages |-> ResolveMessages(b).messages,
                  temperature |-> ResolveTemperature(b).value]]

\* What the provider call does: it returns a completion whose first choice has
\* a content (a string or None), returns a completion with no choice, or raises.
Outcome(k, c, t) == [kind |-> k, content |-> c, text |-> t]
NoOutcome == Outcome("none", JNull, "")
Outcomes ==
  { Outcome("ok", JStr(<<"o", "k">>), ""),
    Outcome("ok", JNull, ""),
    Outcome("nochoice", JNull, ""),
    Outcome("raise", JNull, "Connection error.") }

\* The handler after the provider call: resp.choices[0].message.content and the
\* return, or the except clause.
Finish(model, o) ==
  CASE o.kind = "ok"       -> ChatOK(model, o.content)
    [] o.kind = "nochoice" -> ProviderError("list index out of range")
    [] OTHER               -> ProviderError(o.text)

-----------------------------------------------------------------------------
(* GET /api/health and GET / *)

\* A plausible slip: the provider is reported whether or not the key is set.
health_AlwaysOpenai(key) == [NoResp EXCEPT !.status = 200, !.ok = TRUE, !.provider = "openai"]

\* {"ok": True, "provider": "openai" if OPENAI_API_KEY else "unset"}
health(key) ==
  [NoResp EXCEPT !.status = 200, !.ok = TRUE,
                 !.provider = IF Truthy(key) THEN "openai" ELSE "unset"]

\* index.html beside the module if it exists, the fixed fragment otherwise.
root(exists) ==
  [NoResp EXCEPT !.status = 200,
                 !.html = IF exists THEN "index.html" ELSE "<h1>AI Hub Backend</h1><p>Index bulunamadi.</p>"]

-----------------------------------------------------------------------------
(* The requests clients send *)

\* n whitespace characters.
Pad(n) == [i \in 1..n |-> " "]
\* The 'input' texts: nothing or a word, with whitespace on either side.
Texts == { Pad(i) \o w \o Pad(j) : i \in 0..MaxPad, j \in 0..MaxPad, w \in {<<>>, <<"a">>} }

SystemMsg == [role |-> "system", content |-> <<"s">>]
UserMsg == [role |-> "user", content |-> <<"u">>]

MessagesValues ==
  { Absent, JStr(<<"a">>), JList(<<>>), JList(<<SystemMsg, UserMsg>>),
    JList(<<UserMsg, SystemMsg>>) }
InputValues == {Absent, JNum(1)} \cup { JStr(t) : t \in Texts }
ModelValues == { Absent, JNull, JStr(<<>>), JStr(<<"m">>), JNum(0), JBool(FALSE) }
TemperatureValues == { Absent, JNum(2), JStr(<<" ", "1">>), JStr(<<"a">>), JNull }

Bodies ==
  [messages : MessagesValues, input : InputValues, model : ModelValues,
   temperature : TemperatureValues]

\* {}
EmptyBody == [messages |-> Absent, input |-> Absent, model |-> Absent, temperature |-> Absent]

\* os.getenv("OPENAI_API_KEY"): unset, set to the empty string, or set to a key.
EnvValues == { JNull, JStr(<<>>), JStr(<<"s", "k">>) }

-----------------------------------------------------------------------------
(* The server process *)

VARIABLES
  environ,         \* the OPENAI_API_KEY variable of the process environment
  OPENAI_API_KEY,  \* the module global read from it at import
  loop,            \* the client whose coroutine occupies the event loop, 0 if none
  pc,              \* per client: idle, pending, thread, ready, calling, respond
  kind,            \* per client: the route of its request
  body,            \* per client: the parsed JSON body of a chat request
  calls,           \* per client: the provider calls made for its request
  outcome,         \* per client: what the provider call returned or raised
  resp             \* per client: the response the handler produced

vars == <<environ, OPENAI_API_KEY, loop, pc, kind, body, calls, outcome, resp>>

Routes == {"chat", "health", "root"}

Init ==
  /\ environ \in EnvValues
  /\ OPENAI_API_KEY = environ
  /\ loop = 0
  /\ pc = [c \in Clients |-> "idle"]
  /\ kind = [c \in Clients |-> "none"]
  /\ body = [c \in Clients |-> EmptyBody]
  /\ calls = [c \in Clients |-> <<>>]
  /\ outcome = [c \in Clients |-> NoOutcome]
  /\ resp = [c \in Clients |-> NoResp]

\* A client sends a request; it waits on its connection for the event loop.
Arrive(c) ==
  /\ pc[c] = "idle"
  /\ \E k \in Routes : kind' = [kind EXCEPT ![c] = k]
  /\ pc' = [pc EXCEPT ![c] = "pending"]
  /\ UNCHANGED <<environ, OPENAI_API_KEY, loop, body, calls, outcome, resp>>

\* A plausible slip: the call is made again after it was made (a retry).
IssueCall_Twice(log, call) == Append(Append(log, call), call)

\* client.chat.completions.create(...) is entered once.
IssueCall(log, call) == Append(log, call)

\* The event loop reads a chat request and runs the coroutine `chat` up to the
\* provider call or to the exception raised before it.  The coroutine has no
\* await: it keeps the event loop until it returns or raises.
ChatStart(c) ==
  /\ pc[c] = "pending" /\ kind[c] = "chat"
  /\ loop = 0
  /\ \E b \in Bodies :
       LET p == Prepare(OPENAI_API_KEY, b) IN
       /\ body' = [body EXCEPT ![c] = b]
       /\ IF p.raised
          THEN /\ pc' = [pc EXCEPT ![c] = "respond"]
               /\ resp' = [resp EXCEPT ![c] = p.resp]
               /\ calls' = calls
          ELSE /\ pc' = [pc EXCEPT ![c] = "calling"]
               /\ calls' = [calls EXCEPT ![c] = IssueCall(calls[c], p.call)]
               /\ resp' = resp
  /\ loop' = c
  /\ UNCHANGED <<environ, OPENAI_API_KEY, kind, outcome>>

\* The synchronous provider call returns or raises, and the coroutine runs to
\* its return or through its except clause.
ProviderReturn(c) ==
  /\ pc[c] = "calling"
  /\ \E o \in Outcomes :
       /\ outcome' = [outcome EXCEPT ![c] = o]
       /\ resp' = [resp EXCEPT ![c] = Finish(calls[c][Len(calls[c])].model, o)]
  /\ pc' = [pc EXCEPT ![c] = "respond"]
  /\ UNCHANGED <<environ, OPENAI_API_KEY, loop, kind, body, calls>>

\* The response of the coroutine is sent; the event loop is free again and
\* nothing of the request is kept.
ChatRespond(c) ==
  /\ pc[c] = "respond"
  /\ loop' = 0
  /\ pc' = [pc EXCEPT ![c] = "idle"]
  /\ kind' = [kind EXCEPT ![c] = "none"]
  /\ body' = [body EXCEPT ![c] = EmptyBody]
  /\ calls' = [calls EXCEPT ![c] = <<>>]
  /\ outcome' = [outcome EXCEPT ![c] = NoOutcome]
  /\ resp' = [resp EXCEPT ![c] = NoResp]
  /\ UNCHANGED <<environ, OPENAI_API_KEY>>

\* The event loop reads a health or root request and hands the plain function
\* to the thread pool.
SyncDispatch(c) ==
  /\ pc[c] = "pending" /\ kind[c] \in {"health", "root"}
  /\ loop = 0
  /\ pc' = [pc EXCEPT ![c] = "thread"]
  /\ UNCHANGED <<environ, OPENAI_API_KEY, loop, kind, body, calls, outcome, resp>>

\* health() runs in a pool thread.
HealthRun(c) ==
  /\ pc[c] = "thread" /\ kind[c] = "health"
  /\ resp' = [resp EXCEPT ![c] = health(OPENAI_API_KEY)]
  /\ pc' = [pc EXCEPT ![c] = "ready"]
  /\ UNCHANGED <<environ, OPENAI_API_KEY, loop, kind, body, calls, outcome>>

\* root() runs in a pool thread; index.html is there or not.
RootRun(c) ==
  /\ pc[c] = "thread" /\ kind[c] = "root"
  /\ \E exists \in BOOLEAN : resp' = [resp EXCEPT ![c] = root(exists)]
  /\ pc' = [pc EXCEPT ![c] = "ready"]
  /\ UNCHANGED <<environ, OPENAI_API_KEY, loop, kind, body, calls, outcome>>

\* The event loop sends the result of a pool thread.
SyncRespond(c) ==
  /\ pc[c] = "ready"
  /\ loop = 0
  /\ pc' = [pc EXCEPT ![c] = "idle"]
  /\ kind' = [kind EXCEPT ![c] = "none"]
  /\ resp' = [resp EXCEPT ![c] = NoResp]
  /\ UNCHANGED <<environ, OPENAI_API_KEY, loop, body, calls, outcome>>

Next ==
  \E c \in Clients :
    \/ Arrive(c)
    \/ ChatStart(c)
    \/ ProviderReturn(c)
    \/ ChatRespond(c)
    \/ SyncDispatch(c)
    \/ HealthRun(c)
    \/ RootRun(c)
    \/ SyncRespond(c)

Spec == Init /\ [][Next]_vars

-----------------------------------------------------------------------------
(* Properties *)

\* A chat request whose handler has started: its body has been read.
InChat(c) == kind[c] = "chat" /\ pc[c] \in {"calling", "respond"}
\* A chat request whose handler has finished: its response is decided.
Answered(c) == kind[c] = "chat" /\ pc[c] = "respond"

\* A credential is configured: the environment variable holds a non-empty string.
Configured == environ.kind = "str" /\ Len(environ.text) > 0

IsBlank(t) == \A i \in 1..Len(t) : IsSpace(t[i])
\* The body holds a list under 'messages'.
ListGiven(b) == b.messages.kind = "list"
\* The body holds a string with non-whitespace content under 'input'.
InputGiven(b) == b.input.kind = "str" /\ ~IsBlank(b.input.text)
\* The body passes message validation.
MessagesValid(b) == ListGiven(b) \/ InputGiven(b)
\* The temperature of the body, or the default, can be made a number.
TemperatureOK(b) ==
  b.temperature = Absent \/ FloatOf(b.temperature).ok

\* c is t without its leading and trailing whitespace.
IsTrimOf(c, t) ==
  /\ c # <<>> => ~IsSpace(c[1]) /\ ~IsSpace(c[Len(c)])
  /\ \E i \in 0..Len(t) :
       /\ i + Len(c) <= Len(t)
       /\ c = SubSeq(t, i + 1, i + Len(c))
       /\ \A k \in 1..i : IsSpace(t[k])
       /\ \A k \in (i + Len(c) + 1)..Len(t) : IsSpace(t[k])

\* C1: with no credential configured, a chat request is never in a provider
\* call, has made no call, and its response, whatever its body, is the 500
\* "OPENAI_API_KEY missing".
C1_MissingCredential ==
  \A c \in Clients :
    (InChat(c) /\ ~Configured) =>
      /\ pc[c] = "respond"
      /\ calls[c] = <<>>
      /\ resp[c].status = 500
      /\ resp[c].detail = "OPENAI_API_KEY missing"

\* A request with no usable messages and an uncoercible temperature is answered
\* without a credential.
C1_Witness ==
  \E c \in Clients :
    /\ Answered(c) /\ ~Configured
    /\ ~MessagesValid(body[c]) /\ ~TemperatureOK(body[c])
    /\ resp[c].status = 500

\* C2: with a credential, a chat request with no list under 'messages' and an
\* 'input' that is absent, no string or blank is answered 400 with the fixed
\* detail, and no provider call is made for it.
C2_InvalidRejected ==
  \A c \in Clients :
    (InChat(c) /\ Configured /\ ~ListGiven(body[c]) /\ ~InputGiven(body[c])) =>
      /\ pc[c] = "respond"
      /\ calls[c] = <<>>
      /\ resp[c].status = 400
      /\ resp[c].detail = "Provide 'input' (string) or 'messages' (list)."

\* A whitespace-only 'input' beside a 'messages' that is no list is rejected.
C2_Witness ==
  \E c \in Clients :
    /\ Answered(c) /\ Configured
    /\ body[c].messages.kind = "str"
    /\ body[c].input = JStr(<<" ">>)
    /\ resp[c].status = 400

\* C3: with a credential, when 'messages' is a list the request is never
\* rejected as invalid and every provider call carries that list as it is,
\* whatever 'input' holds; when 'messages' is anything else, a provider call
\* carries the single user message made from a string 'input'.
C3_MessagesPrecedence ==
  \A c \in Clients :
    (InChat(c) /\ Configured) =>
      /\ ListGiven(body[c]) =>
           /\ resp[c].status # 400
           /\ \A i \in 1..Len(calls[c]) : calls[c][i].messages = body[c].messages.items
           /\ TemperatureOK(body[c]) => Len(calls[c]) > 0
      /\ ~ListGiven(body[c]) =>
           \A i \in 1..Len(calls[c]) :
             /\ body[c].input.kind = "str"
             /\ Len(calls[c][i].messages) = 1
             /\ calls[c][i].messages[1].role = "user"

\* A provider call carries a two-message list in its order although 'input' is
\* a usable string.
C3_Witness ==
  \E c \in Clients :
    /\ pc[c] = "calling" /\ Configured
    /\ body[c].messages = JList(<<SystemMsg, UserMsg>>)
    /\ InputGiven(body[c])
    /\ calls[c][1].messages = <<SystemMsg, UserMsg>>

\* C4: while a chat request is in its provider call, every other request that
\* waits for the server can take its next step.
C4_OthersProgress ==
  \A c \in Clients :
    pc[c] = "calling" =>
      \A d \in Clients \ {c} :
        /\ pc[d] = "pending" => ENABLED (ChatStart(d) \/ SyncDispatch(d))
        /\ pc[d] = "ready" => ENABLED SyncRespond(d)

\* C5: every provider call carries a non-empty message list.
C5_CallNonEmpty ==
  \A c \in Clients : \A i \in 1..Len(calls[c]) : calls[c][i].messages # <<>>

\* C6: with a credential and a body that passes message validation, a
\* temperature that cannot be made a number, a provider call that raises and a
\* provider response with no choice each end in the 500 whose detail is
\* "OpenAI error: " followed by the text of the error.
C6_ProviderFailure ==
  \A c \in Clients :
    (Answered(c) /\ Configured /\ MessagesValid(body[c])) =>
      /\ ~TemperatureOK(body[c]) =>
           /\ resp[c].status = 500
           /\ resp[c].detail = "OpenAI error: " \o FloatOf(body[c].temperature).err
      /\ outcome[c].kind = "raise" =>
           /\ resp[c].status = 500
           /\ resp[c].detail = "OpenAI error: " \o outcome[c].text
      /\ outcome[c].kind = "nochoice" =>
           /\ resp[c].status = 500
           /\ resp[c].detail = "OpenAI error: list index out of range"
      /\ resp[c].status = 200 => TemperatureOK(body[c]) /\ outcome[c].kind = "ok"
      /\ resp[c].status \in {200, 500}

\* The provider call raised and the request is answered.
C6_Witness ==
  \E c \in Clients :
    /\ Answered(c) /\ Configured
    /\ outcome[c].kind = "raise"
    /\ resp[c].status = 500

\* C7 as stated: an answered chat request has made one provider call if it
\* passed the credential check and message validation, none otherwise, and no
\* request makes more than one.
C7_OneCallPerValidRequest ==
  \A c \in Clients :
    /\ Len(calls[c]) <= 1
    /\ Answered(c) =>
         Len(calls[c]) = IF Configured /\ MessagesValid(body[c]) THEN 1 ELSE 0

\* C7 amended: an answered chat request has made one provider call if it passed
\* the credential check and message validation and its temperature can be made
\* a number, none otherwise; no request makes more than one.
C7_OneCallPerForwardedRequest ==
  \A c \in Clients :
    /\ Len(calls[c]) <= 1
    /\ pc[c] = "calling" => Len(calls[c]) = 1
    /\ Answered(c) =>
         Len(calls[c]) =
           IF Configured /\ MessagesValid(body[c]) /\ TemperatureOK(body[c]) THEN 1 ELSE 0

\* A request is answered with the provider's failure after its one call.
C7_Witness ==
  \E c \in Clients :
    /\ Answered(c)
    /\ outcome[c].kind = "raise"
    /\ Len(calls[c]) = 1
    /\ resp[c].status = 500

\* C8: with a credential, no list under 'messages' and a string 'input' with
\* non-whitespace content, every provider call carries the one message of role
\* "user" whose content is the input without its leading and trailing
\* whitespace.
C8_InputNormalised ==
  \A c \in Clients :
    (InChat(c) /\ Configured /\ ~ListGiven(body[c]) /\ InputGiven(body[c])) =>
      /\ TemperatureOK(body[c]) => Len(calls[c]) > 0
      /\ \A i \in 1..Len(calls[c]) :
           /\ Len(calls[c][i].messages) = 1
           /\ calls[c][i].messages[1].role = "user"
           /\ IsTrimOf(calls[c][i].messages[1].content, body[c].input.text)

\* An input with whitespace on both sides is forwarded as its word.
C8_Witness ==
  \E c \in Clients :
    /\ pc[c] = "calling"
    /\ ~ListGiven(body[c])
    /\ body[c].input = JStr(<<" ", "a", " ">>)
    /\ calls[c][1].messages = << [role |-> "user", content |-> <<"a">>] >>

\* The model the claim names: the field unless it is absent, null or "".
C9_StatedModel(b) ==
  IF b.model \in {Absent, JNull, JStr(<<>>)} THEN JStr(DEFAULT_MODEL) ELSE b.model

\* The model the code resolves: the field unless it is absent or falsy.
C9_TruthyModel(b) ==
  IF \/ b.model \in {Absent, JNull, JStr(<<>>), JList(<<>>)}
     \/ b.model.kind \in {"num", "bool"} /\ b.model.num = 0
  THEN JStr(DEFAULT_MODEL)
  ELSE b.model

\* C9 as stated: the provider call and a successful response carry the 'model'
\* field when it is present and neither null nor the empty string, and
\* "gpt-4o-mini" otherwise.
C9_ModelNonEmptyOrDefault ==
  \A c \in Clients :
    InChat(c) =>
      /\ \A i \in 1..Len(calls[c]) : calls[c][i].model = C9_StatedModel(body[c])
      /\ resp[c].status = 200 => resp[c].model = C9_StatedModel(body[c])

\* C9 amended: the provider call and a successful response carry the 'model'
\* field when it is present and truthy, and "gpt-4o-mini" when it is absent,
\* null, the empty string or another falsy value (0, false, an empty list).
C9_ModelTruthyOrDefault ==
  \A c \in Clients :
    InChat(c) =>
      /\ \A i \in 1..Len(calls[c]) : calls[c][i].model = C9_TruthyModel(body[c])
      /\ resp[c].status = 200 => resp[c].model = C9_TruthyModel(body[c])

\* A request with no 'model' field succeeds and echoes the default model.
C9_Witness ==
  \E c \in Clients :
    /\ Answered(c)
    /\ body[c].model = Absent
    /\ resp[c].status = 200
    /\ resp[c].model = JStr(DEFAULT_MODEL)
    /\ calls[c][1].model = JStr(DEFAULT_MODEL)

\* C10: in every state the credential the handlers read is the one of the
\* process start, and a health response is 200 with ok true and provider
\* "openai" if that credential is configured, "unset" if not.
C10_HealthReflectsConfig ==
  /\ OPENAI_API_KEY = environ
  /\ \A c \in Clients :
       (kind[c] = "health" /\ pc[c] = "ready") =>
         /\ resp[c].status = 200
         /\ resp[c].ok = TRUE
         /\ resp[c].provider = IF Configured THEN "openai" ELSE "unset"

\* A health response is ready beside a chat request that failed, with the
\* environment variable set to the empty string.
C10_Witness ==
  \E c, d \in Clients :
    /\ kind[c] = "health" /\ pc[c] = "ready"
    /\ resp[c].provider = "unset"
    /\ environ = JStr(<<>>)
    /\ Answered(d) /\ resp[d].status = 500

====
